---- MODULE Spec2Model ----
(***************************************************************************)
(* Model of scripts/simulation_tools_v2.py: the Monte Carlo power          *)
(* simulation of a connectome-wide association study.                      *)
(*                                                                         *)
(* Numbers.  Python floats are modelled as exact rationals on small grids: *)
(* pi = pi/PiDen, q = q/QDen, a p-value = p/PDen, an adjusted p-value and  *)
(* a sensitivity/specificity as a pair <<numerator, denominator>>.         *)
(* Connectivity values are integers; NaN is the value NaN below.           *)
(***************************************************************************)
EXTENDS Integers, Sequences, FiniteSets

\* ------------------------------------------------------------------ bounds
NSubj == 3          \* subjects (rows) of the loaded dataset
NFeat == 2          \* connectivity features (columns) of the dataset
MaxSamples == 2     \* largest num_sample tried
PiDen == 3          \* pi ranges over the grid k/PiDen
QDen == 2           \* q ranges over the grid k/QDen
PDen == 2           \* p-values range over the grid k/PDen
MaxM == 3           \* longest p-value sequence given to fdrcorrection alone

\* ----------------------------------------------------------- small helpers
Range(s) == {s[i] : i \in 1..Len(s)}

Max(S) == CHOOSE x \in S : \A y \in S : y <= x

\* All sequences of n distinct elements of S (a draw without replacement).
Perms(S, n) ==
    {s \in [1..n -> S] : \A i, j \in 1..n : i # j => s[i] # s[j]}

RECURSIVE SumSeq(_)
SumSeq(s) == IF s = <<>> THEN 0 ELSE Head(s) + SumSeq(Tail(s))

\* floor(sqrt(n)) for n >= 0
ISqrt(n) == Max({r \in 0..n : r * r <= n})

\* Python int(x) of the rational a/b, b > 0: truncation towards zero.
IntTrunc(a, b) == IF a >= 0 THEN a \div b ELSE -((-a) \div b)

\* Rationals as <<numerator, denominator>> with a positive denominator.
RatLess(a, b) == a[1] * b[2] < b[1] * a[2]
RatLeq(a, b) == a[1] * b[2] <= b[1] * a[2]
RatMin(a, b) == IF RatLeq(a, b) THEN a ELSE b

\* IEEE not-a-number, as produced by a sample standard deviation of fewer
\* than two values; it absorbs every arithmetic operation.
NaN == -1000000

\* ---------------------------------------------------------------- dataset
\* The table read at line 205: one row per subject with a "Subject", a
\* "Site" and the connectivity columns.  Site labels are numbers whose order
\* stands for the lexical order of the labels.
Dataset ==
    [s \in 1..NSubj |->
        [Subject |-> s,
         Site |-> 5 + (s % 2),
         conn |-> [c \in 1..NFeat |-> 10 * s * c + s * s]]]

\* The header of the connectivity columns.  NonNumeric stands for a label
\* that int() cannot convert.
NonNumeric == -1
ZeroBased == [c \in 1..NFeat |-> c - 1]
LabelChoices ==
    { ZeroBased,
      [c \in 1..NFeat |-> c],
      [c \in 1..NFeat |-> IF c = NFeat THEN NonNumeric ELSE c - 1] }

\* --------------------------------------------------------- pure functions
\* random_sample, lines 11-16: random.sample(range(len(df)), N) draws N
\* distinct row positions in random order and raises ValueError when N is
\* negative or larger than the population; df.iloc keeps that order.
random_sample_raises(df, n) == n < 0 \/ n > Len(df)

random_sample(df, n) ==
    {[i \in 1..n |-> df[idx[i]]] : idx \in Perms(1..Len(df), n)}

\* split_sampled_df with the first half rounded up instead of down.
split_sampled_df_overlap(sampled) ==
    LET n == Len(sampled)
        half_rows == n \div 2
    IN  {<<SubSeq([i \in 1..n |-> sampled[p[i]]], 1, (n + 1) \div 2),
           SubSeq([i \in 1..n |-> sampled[p[i]]], half_rows + 1, n)>> :
            p \in Perms(1..n, n)}

\* split_sampled_df, lines 19-30: shuffle all rows, then cut at len // 2.
split_sampled_df(sampled) ==
    LET n == Len(sampled)
        half_rows == n \div 2
    IN  {<<SubSeq([i \in 1..n |-> sampled[p[i]]], 1, half_rows),
           SubSeq([i \in 1..n |-> sampled[p[i]]], half_rows + 1, n)>> :
            p \in Perms(1..n, n)}

\* LabelEncoder fitted on the cohort, lines 45-48: a label's code is its
\* position among the sorted distinct labels of the cohort.
le_transform(sampled, site) ==
    Cardinality({r.Site : r \in {x \in Range(sampled) : x.Site < site}})

\* extract_data, lines 39-58.
extract_data(sampled, g1, g2) ==
    [group1_site |-> [i \in 1..Len(g1) |-> le_transform(sampled, g1[i].Site)],
     group2_site |-> [i \in 1..Len(g2) |-> le_transform(sampled, g2[i].Site)],
     group1_conn |-> [i \in 1..Len(g1) |-> g1[i].conn],
     group2_conn |-> [i \in 1..Len(g2) |-> g2[i].conn]]

\* Series.std() of one column of a frame, line 81: the sample standard
\* deviation (ddof = 1), NaN for fewer than two rows; rounded down to an
\* integer here.
ColStd(rows, c) ==
    LET n == Len(rows)
        sx == SumSeq([i \in 1..n |-> rows[i][c]])
        sxx == SumSeq([i \in 1..n |-> rows[i][c] * rows[i][c]])
    IN  IF n < 2 THEN NaN ELSE ISqrt((n * sxx - sx * sx) \div (n * (n - 1)))

\* apply_modification, lines 61-62 and line 82.
apply_modification(value, dd, std_value) ==
    IF value = NaN \/ std_value = NaN THEN NaN ELSE value + dd * std_value

\* The number of columns rounded up instead of truncated.
num_to_modify_ceil(total_conn, piNum) ==
    -IntTrunc(-(total_conn * piNum) - (PiDen - 1), PiDen)

\* modify_group2, lines 65-70: the number of columns to modify.
num_to_modify(total_conn, piNum) == IntTrunc(total_conn * piNum, PiDen)

\* DataFrame.sample(n=.., axis=1), line 73, raises ValueError for a negative
\* n and for n larger than the number of columns.
sample_columns_raises(total_conn, n) == n < 0 \/ n > total_conn

\* The columns drawn at line 73, as their labels in the order drawn.
sample_columns(lab, n) ==
    {[i \in 1..n |-> lab[p[i]]] : p \in Perms(1..Len(lab), n)}

\* modify_group2 with the std taken from group2 alone.
modify_columns_group2_std(lab, g1conn, g2conn, cols, dd) ==
    [i \in 1..Len(g2conn) |->
        [c \in 1..Len(lab) |->
            IF lab[c] \in Range(cols)
            THEN apply_modification(g2conn[i][c], dd, ColStd(g2conn, c))
            ELSE g2conn[i][c]]]

\* modify_group2, lines 75-84: the std comes from both groups stacked, before
\* any modification; group2_conn is copied, and the selected columns of the
\* copy are shifted by d * std.
modify_columns(lab, g1conn, g2conn, cols, dd) ==
    LET combined_data == g1conn \o g2conn
    IN  [i \in 1..Len(g2conn) |->
            [c \in 1..Len(lab) |->
                IF lab[c] \in Range(cols)
                THEN apply_modification(g2conn[i][c], dd,
                                        ColStd(combined_data, c))
                ELSE g2conn[i][c]]]

\* ------------------------------------------------------- p-values and FDR
\* A p-value is k/PDen for k in 0..PDen, or NaN (statsmodels reports NaN
\* when the regression leaves no residual degrees of freedom).
PValues == (0..PDen) \cup {NaN}

\* numpy orders NaN after every number.
SortKey(p) == IF p = NaN THEN PDen + 1 ELSE p

\* Rank (1 = smallest) of entry i in np.argsort(pvals), ties by position.
RankOf(pvals, i) ==
    Cardinality({j \in 1..Len(pvals) :
        \/ SortKey(pvals[j]) < SortKey(pvals[i])
        \/ SortKey(pvals[j]) = SortKey(pvals[i]) /\ j <= i})

\* pvals_sorted[k], k = 1..m
SortedP(pvals, k) ==
    pvals[CHOOSE i \in 1..Len(pvals) : RankOf(pvals, i) = k]

\* pvals_sorted <= ecdffactor * alpha at rank k, ecdffactor = k/m; a
\* comparison with NaN is false.
BelowLine(pvals, k, qNum) ==
    /\ SortedP(pvals, k) # NaN
    /\ SortedP(pvals, k) * Len(pvals) * QDen <= k * qNum * PDen

\* The ranks rejected by the step-up rule: every rank up to rejectmax, the
\* largest rank below the line.
RejectedRanksNoFill(pvals, qNum) ==
    {k \in 1..Len(pvals) : BelowLine(pvals, k, qNum)}

RejectedRanks(pvals, qNum) ==
    LET below == {k \in 1..Len(pvals) : BelowLine(pvals, k, qNum)}
    IN  IF below = {} THEN {} ELSE 1..Max(below)

\* pvals_corrected at rank k: the running minimum, from the largest rank
\* down, of pvals_sorted / ecdffactor, then clipped to 1.  np.minimum
\* propagates NaN.
RECURSIVE CorrectedAt(_, _)
CorrectedAt(pvals, k) ==
    LET m == Len(pvals)
        raw == IF SortedP(pvals, k) = NaN THEN <<NaN, 1>>
               ELSE <<SortedP(pvals, k) * m, k * PDen>>
    IN  IF k = m THEN raw
        ELSE LET rest == CorrectedAt(pvals, k + 1)
             IN  IF raw[1] = NaN \/ rest[1] = NaN THEN <<NaN, 1>>
                 ELSE RatMin(raw, rest)

Clip(c) == IF c[1] # NaN /\ RatLess(<<1, 1>>, c) THEN <<1, 1>> ELSE c

\* statsmodels.stats.multitest.fdrcorrection(pvals, alpha=q), method
\* 'indep', called at line 150: the flags and the adjusted p-values, both
\* in the order of pvals.
fdrcorrection(pvals, qNum) ==
    [rejected |-> [i \in 1..Len(pvals) |->
                      RankOf(pvals, i) \in RejectedRanks(pvals, qNum)],
     corrected |-> [i \in 1..Len(pvals) |->
                      Clip(CorrectedAt(pvals, RankOf(pvals, i)))]]

\* np.any(corrected_pval_list < q), line 229.
AnyBelow(corrected, qNum) ==
    \E i \in 1..Len(corrected) :
        corrected[i][1] # NaN /\ RatLess(corrected[i], <<qNum, QDen>>)

\* Lines 229-230: what one trial adds to correct_rejected_count.
PowerIncrementPerFeature(corrected, qNum) ==
    Cardinality({i \in 1..Len(corrected) :
        corrected[i][1] # NaN /\ RatLess(corrected[i], <<qNum, QDen>>)})

PowerIncrement(corrected, qNum) ==
    IF AnyBelow(corrected, qNum) THEN 1 ELSE 0

\* int(conn) for every modified column label, line 154: ValueError for a
\* label that is not an integer literal.
int_raises(cols) == NonNumeric \in Range(cols)

\* Lines 172-173: both operands are Python ints, so a zero denominator
\* raises ZeroDivisionError.
division_never_raises(condition_positive, condition_negative) == FALSE

division_raises(condition_positive, condition_negative) ==
    condition_positive = 0 \/ condition_negative = 0

\* apply_fdr, lines 148-175.  Connections are numbered 0..count-1 by
\* position (line 162) and looked up in the list of converted labels.
apply_fdr(connection_count, cols, pvals, qNum) ==
    LET res == fdrcorrection(pvals, qNum)
        modified_conn_list == Range(cols)
        condition_positive == Len(cols)
        condition_negative == connection_count - condition_positive
        true_positive_count ==
            Cardinality({c \in 0..(connection_count - 1) :
                c \in modified_conn_list /\ res.rejected[c + 1]})
        true_negative_count ==
            Cardinality({c \in 0..(connection_count - 1) :
                c \notin modified_conn_list /\ ~res.rejected[c + 1]})
    IN  [raises |-> IF int_raises(cols) THEN "ValueError"
                    ELSE IF division_raises(condition_positive,
                                            condition_negative)
                         THEN "ZeroDivisionError"
                         ELSE "none",
         rejected |-> res.rejected,
         corrected_pval_list |-> res.corrected,
         tp |-> true_positive_count,
         tn |-> true_negative_count,
         sensitivity |-> <<true_positive_count, condition_positive>>,
         specificity |-> <<true_negative_count, condition_negative>>]

\* Rank of the design matrix of lines 103-111, whose rows are (Group, Site,
\* 1): one more than the affine dimension of the points (Group, Site).
DesignRank(g1site, g2site) ==
    LET pts == {<<0, g1site[i]>> : i \in 1..Len(g1site)}
                  \cup {<<1, g2site[i]>> : i \in 1..Len(g2site)}
        Collinear(a, b, c) ==
            (b[1] - a[1]) * (c[2] - a[2]) = (b[2] - a[2]) * (c[1] - a[1])
    IN  IF pts = {} THEN 0
        ELSE IF Cardinality(pts) = 1 THEN 1
        ELSE IF \A a, b, c \in pts : Collinear(a, b, c) THEN 2
        ELSE 3

\* sm.OLS on no row at all raises (numpy cannot reduce an empty array).
run_cwas_raises(g1site, g2site) == Len(g1site) + Len(g2site) = 0

\* run_cwas, lines 87-123: one OLS fit per column (statsmodels), of which
\* only the p-value of "Group" is kept.  The fit itself is not modelled: with
\* no residual degree of freedom (rows <= rank) every p-value is NaN,
\* otherwise any p-value of the grid may come out for each column.
run_cwas(connection_count, g1site, g2site) ==
    IF Len(g1site) + Len(g2site) <= DesignRank(g1site, g2site)
    THEN {[c \in 1..connection_count |-> NaN]}
    ELSE [1..connection_count -> 0..PDen]

\* Sum and mean of a list of rationals (np.mean at line 196).
RECURSIVE RatSum(_)
RatSum(s) ==
    IF s = <<>> THEN <<0, 1>>
    ELSE LET r == RatSum(Tail(s))
         IN  <<Head(s)[1] * r[2] + r[1] * Head(s)[2], Head(s)[2] * r[2]>>

RatMean(s) == <<RatSum(s)[1], RatSum(s)[2] * Len(s)>>

\* summary, lines 185-200: power = correct_rejected_count / num_sample and
\* the two means; ZeroDivisionError when num_sample = 0.
summary_raises(ns) == ns = 0

summary(count, sens, spec, dd, n, ns) ==
    [power |-> <<count, ns>>,
     mean_sensitivity |-> RatMean(sens),
     mean_specificity |-> RatMean(spec),
     d |-> dd,
     N |-> n]

\* ------------------------------------------------------------------ state
VARIABLES
    conn_df,                \* the loaded table (line 205)
    labels,                 \* its connectivity column labels
    N, pi, d, q, num_sample,    \* run_simulation_experiment's parameters
    pc,                     \* position in run_simulation_experiment
    err,                    \* the exception that ended the run, or "none"
    sample,                 \* trials completed (loop variable, line 210)
    sensitivity_list, specificity_list, correct_rejected_count,
    group1_conn, group2_conn, group2_modified, connections_to_modify,
    pval_list,              \* assigned together at lines 212-218
    frame,                  \* locals of the running run_simulation call
    fdr,                    \* what the last apply_fdr call computed
    result                  \* the summary returned at line 236

vars == <<conn_df, labels, N, pi, d, q, num_sample, pc, err, sample,
          sensitivity_list, specificity_list, correct_rejected_count,
          group1_conn, group2_conn, group2_modified, connections_to_modify,
          pval_list, frame, fdr, result>>

params == <<conn_df, labels, N, pi, d, q, num_sample>>
tallies == <<sensitivity_list, specificity_list, correct_rejected_count>>
trial == <<group1_conn, group2_conn, group2_modified, connections_to_modify,
           pval_list>>

None == <<>>
NoFrame == [at |-> "none"]
NotCalled == [raises |-> "not called"]
NoResult == [unset |-> TRUE]

DValues == {-1, 2}

\* The state on entry to the loop, lines 207-209.
Start ==
    /\ pc = "loop"
    /\ err = "none"
    /\ sample = 0
    /\ sensitivity_list = <<>>
    /\ specificity_list = <<>>
    /\ correct_rejected_count = 0
    /\ group1_conn = None /\ group2_conn = None /\ group2_modified = None
    /\ connections_to_modify = None /\ pval_list = None
    /\ frame = NoFrame
    /\ fdr = NotCalled
    /\ result = NoResult

Init ==
    /\ conn_df = Dataset
    /\ labels \in LabelChoices
    /\ N \in (-1)..(NSubj + 1)
    /\ pi \in (-PiDen)..(2 * PiDen)
    /\ d \in DValues
    /\ q \in 0..(QDen + 1)
    /\ num_sample \in 0..MaxSamples
    /\ Start

\* An exception propagates out of run_simulation_experiment: nothing is
\* returned.
Raise(e) ==
    /\ pc' = "error"
    /\ err' = e
    /\ frame' = NoFrame
    /\ UNCHANGED <<params, sample, tallies, trial, fdr, result>>

\* ---------------------------------------------------------------- actions
\* Line 210 enters a trial and line 128 draws the cohort.
RandomSample ==
    /\ pc = "loop"
    /\ sample < num_sample
    /\ IF random_sample_raises(conn_df, N)
       THEN Raise("ValueError")
       ELSE /\ \E s \in random_sample(conn_df, N) :
                  frame' = [at |-> "split", sampled_df |-> s]
            /\ pc' = "trial"
            /\ UNCHANGED <<params, err, sample, tallies, trial, fdr, result>>

\* Line 131.
SplitSampledDf ==
    /\ pc = "trial"
    /\ frame.at = "split"
    /\ \E g \in split_sampled_df(frame.sampled_df) :
          frame' = [at |-> "extract", sampled_df |-> frame.sampled_df,
                    group1 |-> g[1], group2 |-> g[2]]
    /\ UNCHANGED <<params, pc, err, sample, tallies, trial, fdr, result>>

\* Lines 133-135.
ExtractData ==
    /\ pc = "trial"
    /\ frame.at = "extract"
    /\ LET x == extract_data(frame.sampled_df, frame.group1, frame.group2)
       IN  frame' = [at |-> "modify",
                     group1_site |-> x.group1_site,
                     group2_site |-> x.group2_site,
                     group1_conn |-> x.group1_conn,
                     group2_conn |-> x.group2_conn]
    /\ UNCHANGED <<params, pc, err, sample, tallies, trial, fdr, result>>

\* Lines 138-140: modify_group2.
ModifyGroup2 ==
    /\ pc = "trial"
    /\ frame.at = "modify"
    /\ LET total_conn == Len(labels)
           n == num_to_modify(total_conn, pi)
       IN  IF sample_columns_raises(total_conn, n)
           THEN Raise("ValueError")
           ELSE /\ \E cols \in sample_columns(labels, n) :
                      frame' = [at |-> "cwas",
                                group1_site |-> frame.group1_site,
                                group2_site |-> frame.group2_site,
                                group1_conn |-> frame.group1_conn,
                                group2_conn |-> frame.group2_conn,
                                connections_to_modify |-> cols,
                                group2_modified |->
                                    modify_columns(labels, frame.group1_conn,
                                                   frame.group2_conn, cols, d)]
                /\ UNCHANGED <<params, pc, err, sample, tallies, trial, fdr,
                               result>>

\* Lines 143-145 and 212-218: run_cwas, then run_simulation returns and its
\* five results are bound in the caller.
RunCwas ==
    /\ pc = "trial"
    /\ frame.at = "cwas"
    /\ IF run_cwas_raises(frame.group1_site, frame.group2_site)
       THEN Raise("ValueError")
       ELSE /\ \E pv \in run_cwas(Len(labels), frame.group1_site,
                                   frame.group2_site) : pval_list' = pv
            /\ group1_conn' = frame.group1_conn
            /\ group2_conn' = frame.group2_conn
            /\ group2_modified' = frame.group2_modified
            /\ connections_to_modify' = frame.connections_to_modify
            /\ frame' = NoFrame
            /\ pc' = "fdr"
            /\ UNCHANGED <<params, err, sample, tallies, fdr, result>>

\* Lines 221-230: apply_fdr, the two appends and the power count.
ApplyFdr ==
    /\ pc = "fdr"
    /\ LET r == apply_fdr(Len(labels), connections_to_modify, pval_list, q)
       IN  /\ fdr' = r
           /\ IF r.raises # "none"
              THEN /\ pc' = "error"
                   /\ err' = r.raises
                   /\ UNCHANGED <<sample, tallies>>
              ELSE /\ sensitivity_list' = Append(sensitivity_list, r.sensitivity)
                   /\ specificity_list' = Append(specificity_list, r.specificity)
                   /\ correct_rejected_count' = correct_rejected_count
                         + PowerIncrement(r.corrected_pval_list, q)
                   /\ sample' = sample + 1
                   /\ pc' = "loop"
                   /\ err' = err
    /\ UNCHANGED <<params, trial, frame, result>>

\* Lines 232-236, after the last trial.
Summary ==
    /\ pc = "loop"
    /\ sample = num_sample
    /\ IF summary_raises(num_sample)
       THEN Raise("ZeroDivisionError")
       ELSE /\ result' = summary(correct_rejected_count, sensitivity_list,
                                 specificity_list, d, N, num_sample)
            /\ pc' = "returned"
            /\ UNCHANGED <<params, err, sample, tallies, trial, frame, fdr>>

Next ==
    \/ RandomSample
    \/ SplitSampledDf
    \/ ExtractData
    \/ ModifyGroup2
    \/ RunCwas
    \/ ApplyFdr
    \/ Summary

Spec == Init /\ [][Next]_vars

\* ------------------------------------------------- the cohort sampler alone
\* Lines 128-135 on tables of every size up to NSubj.
InitSampler ==
    /\ conn_df \in {SubSeq(Dataset, 1, k) : k \in 0..NSubj}
    /\ labels = ZeroBased
    /\ N \in (-1)..(NSubj + 1)
    /\ pi = 0 /\ d = 0 /\ q = 1
    /\ num_sample = 1
    /\ Start

NextSampler == RandomSample \/ SplitSampledDf \/ ExtractData

SpecSampler == InitSampler /\ [][NextSampler]_vars

\* ------------------------------------------------ the effect injector alone
\* Lines 128-140 for every pi of the grid.
InitInjector ==
    /\ conn_df = Dataset
    /\ labels \in LabelChoices
    /\ N \in 0..NSubj
    /\ pi \in (-PiDen)..(2 * PiDen)
    /\ d \in DValues
    /\ q = 1
    /\ num_sample = 1
    /\ Start

NextInjector == RandomSample \/ SplitSampledDf \/ ExtractData \/ ModifyGroup2

SpecInjector == InitInjector /\ [][NextInjector]_vars

\* --------------------------------------------- the correction step alone
\* Lines 150 and 229-230 on every p-value sequence of up to MaxM entries.
InitFdr ==
    /\ conn_df = Dataset
    /\ labels = ZeroBased
    /\ N = NSubj /\ pi = 0 /\ d = 0
    /\ q \in 0..(QDen + 1)
    /\ num_sample = 1
    /\ pc = "fdr input"
    /\ err = "none"
    /\ sample = 0
    /\ sensitivity_list = <<>>
    /\ specificity_list = <<>>
    /\ correct_rejected_count = 0
    /\ group1_conn = None /\ group2_conn = None /\ group2_modified = None
    /\ connections_to_modify = None
    /\ pval_list \in UNION {[1..m -> PValues] : m \in 1..MaxM}
    /\ frame = NoFrame
    /\ fdr = NotCalled
    /\ result = NoResult

FdrCorrection ==
    /\ pc = "fdr input"
    /\ LET r == fdrcorrection(pval_list, q)
       IN  /\ fdr' = [raises |-> "none", rejected |-> r.rejected,
                      corrected_pval_list |-> r.corrected]
           /\ correct_rejected_count' =
                 correct_rejected_count + PowerIncrement(r.corrected, q)
    /\ pc' = "fdr output"
    /\ UNCHANGED <<params, err, sample, sensitivity_list, specificity_list,
                   trial, frame, result>>

NextFdr == FdrCorrection

SpecFdr == InitFdr /\ [][NextFdr]_vars

\* ================================================================= claims
Subjects(rows) == {rows[i].Subject : i \in 1..Len(rows)}

\* C1: after random_sample and split_sampled_df, Group1 and Group2 share no
\* subject, together they are exactly the N distinct sampled subjects (all
\* of them subjects of the table), Group1 has floor(N/2) rows and Group2 the
\* other N - floor(N/2), so Group2 gets the extra subject of an odd N.
C1_Partition ==
    (pc = "trial" /\ frame.at = "extract") =>
        /\ Subjects(frame.group1) \cap Subjects(frame.group2) = {}
        /\ Subjects(frame.group1) \cup Subjects(frame.group2)
              = Subjects(frame.sampled_df)
        /\ Subjects(frame.sampled_df) \subseteq Subjects(conn_df)
        /\ Cardinality(Subjects(frame.sampled_df)) = N
        /\ Len(frame.group1) = N \div 2
        /\ Len(frame.group2) = N - (N \div 2)
        /\ Len(frame.group2) - Len(frame.group1) \in {0, 1}
        /\ \A r \in Range(frame.group1) \cup Range(frame.group2) :
              r \in Range(conn_df)

C1_Witness ==
    /\ pc = "trial" /\ frame.at = "extract"
    /\ N = 3
    /\ Len(conn_df) = 3
    /\ Len(frame.group1) = 1
    /\ Len(frame.group2) = 2

\* C2: for pi in [0,1] modify_group2 selects exactly floor(F * pi) distinct
\* feature columns (and does not raise); for pi = 0 the selection is empty
\* and the modified Group2 matrix equals the original in every cell.
C2_Selection ==
    (0 <= pi /\ pi <= PiDen) =>
        /\ pc # "error"
        /\ (pc = "trial" /\ frame.at = "cwas") =>
              LET cols == frame.connections_to_modify
              IN  /\ Len(cols) = (Len(labels) * pi) \div PiDen
                  /\ Cardinality(Range(cols)) = Len(cols)
                  /\ Range(cols) \subseteq Range(labels)
                  /\ pi = 0 =>
                        /\ Len(cols) = 0
                        /\ \A i \in 1..Len(frame.group2_conn) :
                           \A c \in 1..Len(labels) :
                              frame.group2_modified[i][c]
                                 = frame.group2_conn[i][c]
                  /\ Len(frame.group2_modified) = Len(frame.group2_conn)

C2_Witness ==
    /\ pc = "trial" /\ frame.at = "cwas"
    /\ 0 < pi /\ pi < PiDen
    /\ (Len(labels) * pi) % PiDen # 0
    /\ Len(frame.connections_to_modify) = 1
    /\ Len(frame.group2_conn) = 2

\* The k-th smallest value of a sequence of numbers.
KthSmallest(pvals, k) ==
    CHOOSE v \in Range(pvals) :
        /\ Cardinality({j \in 1..Len(pvals) : pvals[j] < v}) < k
        /\ k <= Cardinality({j \in 1..Len(pvals) : pvals[j] <= v})

\* The ranks k with p(k) <= (k/m) * q.
BHRanks(pvals, qNum) ==
    {k \in 1..Len(pvals) :
        KthSmallest(pvals, k) * Len(pvals) * QDen <= k * qNum * PDen}

\* C7: for q in (0,1) the power test of run_simulation_experiment (some
\* adjusted p-value strictly below q) is true exactly when the correction
\* step rejects at least one feature.
C7_PowerIsAnyRejection ==
    (/\ pc = "fdr output"
     /\ 0 < q /\ q < QDen
     /\ NaN \notin Range(pval_list)) =>
        (correct_rejected_count = 1
            <=> \E i \in 1..Len(pval_list) : fdr.rejected[i])

\* C8: the flags of the correction step are exactly the features of
\* ascending rank <= k, k the largest rank with p(k) <= (k/m) * q, and none
\* when there is no such rank; a feature with a smaller raw p-value than a
\* rejected one is rejected; flag i belongs to p-value i.
C8_StepUp ==
    (pc = "fdr output" /\ NaN \notin Range(pval_list)) =>
        LET m == Len(pval_list)
            K == BHRanks(pval_list, q)
            rej == {i \in 1..m : fdr.rejected[i]}
        IN  /\ Len(fdr.rejected) = m
            /\ K = {} => rej = {}
            /\ K # {} =>
                  /\ Cardinality(rej) = Max(K)
                  /\ rej = {i \in 1..m :
                               pval_list[i] <= KthSmallest(pval_list, Max(K))}
            /\ \A a \in rej : \A b \in 1..m :
                  pval_list[b] < pval_list[a] => b \in rej

C8_Witness ==
    /\ pc = "fdr output"
    /\ NaN \notin Range(pval_list)
    /\ 0 < q /\ q < QDen
    /\ Len(pval_list) = 3
    /\ pval_list[2] < pval_list[1]
    /\ fdr.rejected[1]
    /\ pval_list[1] * 3 * QDen > 2 * q * PDen

\* The last apply_fdr call was made on the trial data now bound.
FdrCurrent == pc # "fdr" /\ fdr.raises # "not called"

Degenerate ==
    \/ Len(connections_to_modify) = 0
    \/ Len(connections_to_modify) = Len(labels)

\* C3: a trial with condition_positive = 0 or condition_negative = 0 ends
\* apply_fdr in an error, in that very trial: the run is in its error state
\* as soon as apply_fdr has run on it, and no sensitivity or specificity
\* of the trial is recorded.
C3_DegenerateRaises ==
    (FdrCurrent /\ Degenerate) =>
        /\ pc = "error"
        /\ fdr.raises \in {"ZeroDivisionError", "ValueError"}
        /\ err = fdr.raises
        /\ Len(sensitivity_list) = sample
        /\ Len(specificity_list) = sample
        /\ result = NoResult

C3_Witness ==
    /\ FdrCurrent
    /\ num_sample = 2
    /\ Len(connections_to_modify) = Len(labels)
    /\ pc = "error"
    /\ err = "ZeroDivisionError"

\* C4: a run with pi = 0 and otherwise valid N, q and num_sample >= 1 does
\* not stop in an error state.
C4_NullRunCompletes ==
    (/\ pi = 0
     /\ 2 <= N /\ N <= Len(conn_df)
     /\ 0 < q /\ q < QDen
     /\ num_sample >= 1) =>
        pc # "error"

InvalidParameters ==
    \/ N > Len(conn_df)
    \/ N < 2
    \/ pi < 0 \/ pi > PiDen
    \/ q <= 0 \/ q >= QDen

\* C5: with N greater than the number of subjects, N < 2, pi outside [0,1]
\* or q outside (0,1), no trial outcome is ever recorded and no summary is
\* returned.
C5_InvalidRejected ==
    InvalidParameters =>
        /\ sample = 0
        /\ sensitivity_list = <<>>
        /\ specificity_list = <<>>
        /\ pc # "returned"

\* The column positions perturbed by modify_group2 in the bound trial.
ModifiedPositions ==
    {c \in 1..Len(labels) : labels[c] \in Range(connections_to_modify)}

\* C6: whatever the column labels, true_positive_count is the number of
\* positions both perturbed and rejected, true_negative_count the number
\* neither perturbed nor rejected, so that with the false negatives and
\* false positives they add up to condition_positive and
\* condition_negative and stay within them.
C6_CountsByPosition ==
    (FdrCurrent /\ fdr.raises \in {"none", "ZeroDivisionError"}) =>
        LET all == 1..Len(labels)
            rej == {c \in all : fdr.rejected[c]}
            condition_positive == Cardinality(ModifiedPositions)
            condition_negative == Len(labels) - condition_positive
            fn == Cardinality(ModifiedPositions \ rej)
            fp == Cardinality(rej \ ModifiedPositions)
        IN  /\ fdr.tp = Cardinality(ModifiedPositions \cap rej)
            /\ fdr.tn = Cardinality(all \ (ModifiedPositions \cup rej))
            /\ fdr.tp + fn = condition_positive
            /\ fdr.tn + fp = condition_negative
            /\ 0 <= fdr.tp /\ fdr.tp <= condition_positive
            /\ 0 <= fdr.tn /\ fdr.tn <= condition_negative

\* Matrix g2m is matrix g2 with d * std added in exactly the columns whose
\* labels are in cols, std being that of the column over g1 and g2 stacked.
ShiftedIn(g1, g2, g2m, cols) ==
    /\ Len(g2m) = Len(g2)
    /\ \A i \in 1..Len(g2) : \A c \in 1..Len(labels) :
          LET std == ColStd(g1 \o g2, c)
          IN  g2m[i][c] =
                 IF labels[c] \notin Range(cols) THEN g2[i][c]
                 ELSE IF std = NaN THEN NaN
                 ELSE g2[i][c] + d * std

ConnRows == {conn_df[s].conn : s \in 1..Len(conn_df)}

\* C9: the loaded table is never modified; after modify_group2 the Group1
\* and original Group2 matrices still hold rows of the table, and the
\* modified Group2 matrix differs from the original only in the selected
\* columns, by d * std of the unmodified stacked data; the matrices and the
\* selection bound in the caller, which are what the run returns, satisfy
\* the same relation and are those the last apply_fdr call worked on.
C9_Frame ==
    /\ conn_df = Dataset
    /\ (pc = "trial" /\ frame.at = "cwas") =>
          /\ Range(frame.group1_conn) \cup Range(frame.group2_conn)
                \subseteq ConnRows
          /\ ShiftedIn(frame.group1_conn, frame.group2_conn,
                       frame.group2_modified, frame.connections_to_modify)
    /\ Range(group1_conn) \cup Range(group2_conn) \subseteq ConnRows
    /\ ShiftedIn(group1_conn, group2_conn, group2_modified,
                 connections_to_modify)
    /\ pc = "returned" =>
          /\ sample = num_sample
          /\ fdr.raises = "none"
          /\ fdr.sensitivity[2] = Len(connections_to_modify)
          /\ fdr.rejected = fdrcorrection(pval_list, q).rejected

C9_Witness ==
    /\ pc = "returned"
    /\ sample = 2
    /\ Len(group2_conn) = 2
    /\ \E c \in 1..Len(labels) :
          /\ group2_modified[1][c] # group2_conn[1][c]
          /\ group2_modified[1][c] # NaN
    /\ \E c \in 1..Len(labels) : group2_modified[1][c] = group2_conn[1][c]

TrialLoopInvariant ==
    /\ Len(sensitivity_list) = sample
    /\ Len(specificity_list) = sample
    /\ 0 <= correct_rejected_count /\ correct_rejected_count <= sample
    /\ sample <= num_sample
    /\ pc = "returned" =>
          /\ sample = num_sample
          /\ num_sample >= 1
          /\ err = "none"
          /\ result.power = <<correct_rejected_count, num_sample>>
          /\ 0 <= result.power[1] /\ result.power[1] <= result.power[2]
    /\ pc # "returned" => result = NoResult
    /\ pc = "error" <=> err # "none"

\* C10: after k completed trials both lists hold k entries and 0 <=
\* correct_rejected_count <= k; a trial adds one entry to each list and at
\* most 1 to the count; a summary exists only once all num_sample trials
\* have completed without error, with power = count / num_sample in [0,1];
\* once a trial has raised nothing more happens and there is no summary.
C10_TrialLoop ==
    /\ TrialLoopInvariant
    /\ [][/\ TrialLoopInvariant'
          /\ pc # "error"
          /\ sample' \in {sample, sample + 1}
          /\ correct_rejected_count' - correct_rejected_count \in {0, 1}
          /\ sample' = sample => UNCHANGED tallies
          /\ pc' = "returned" => sample = num_sample /\ pc = "loop"
         ]_vars

C10_Witness ==
    /\ pc = "returned"
    /\ num_sample = 2
    /\ correct_rejected_count = 1
    /\ Len(sensitivity_list) = 2
====
